---------------------------- MODULE Spec2Model ----------------------------
(***************************************************************************)
(* A model of the typed graph wrapper of spatial_graph                     *)
(* (src/spatial_graph/graph/wrapper_template.pyx): the Cheetah template    *)
(* that renders, for one node schema and one edge schema, the Cython class *)
(* UndirectedGraph around graph_lite's Graph.                              *)
(*                                                                         *)
(* The graph library itself (graph_lite.h) is not part of the sources; its *)
(* operations are modelled from the declarations of the template           *)
(* (lines 27-65) and from the specification of the graph store.            *)
(***************************************************************************)
EXTENDS Integers, Sequences, FiniteSets, TLC

VARIABLES
    node_dtypes,    \* $node_attr_dtypes: the node schema, a sequence of field kinds
    edge_dtypes,    \* $edge_attr_dtypes: the edge schema
    compiled,       \* whether the module rendered for the two schemas compiled
    graph,          \* UndirectedGraph._graph, the store
    prev,           \* history: the store as it was when the last call began
    last,           \* history: the last call, its arguments and what the caller saw
    added,          \* history: keys passed to add_node(s) and not since to remove_node
    gen             \* the generator the caller iterates, and the views it was handed

vars == <<node_dtypes, edge_dtypes, compiled, graph, prev, last, added, gen>>

----------------------------------------------------------------------------
(* Bounds of the model *)

\* node keys are 0 .. MaxKey in the structural specification
MaxKey == 2
\* node keys are 0 .. MaxAttrKey in the attribute specification
MaxAttrKey == 1
\* attribute inputs are generated from the seeds 0 .. MaxSeed
MaxSeed == 1
\* a schema has at most MaxFields fields
MaxFields == 2
\* $dtype.size of every fixed-array field
ArrSize == 2
\* a bulk call carries at most MaxBatch rows
MaxBatch == 2

Keys == 0 .. MaxKey
AttrKeys == 0 .. MaxAttrKey
Seeds == 0 .. MaxSeed

\* every sequence over S of length 0 .. n
RECURSIVE SeqsUpTo(_, _)
SeqsUpTo(S, n) ==
    IF n = 0 THEN {<<>>}
    ELSE LET shorter == SeqsUpTo(S, n - 1)
         IN  shorter \cup {Append(s, x) : s \in {t \in shorter : Len(t) = n - 1}, x \in S}

\* every schema of 1 .. MaxFields fields, scalar and fixed-array in any order
Schemas == SeqsUpTo({"scalar", "array"}, MaxFields) \ {<<>>}

\* the value of element j of field f generated from a seed (all positions differ)
Val(seed, f, j) == 100 * seed + 10 * f + j

\* one attribute value per field of the schema, as a caller passes them to add_node
AttrsFor(dtypes, seed) ==
    [f \in 1 .. Len(dtypes) |->
        IF dtypes[f] = "array" THEN [j \in 1 .. ArrSize |-> Val(seed, f, j)]
        ELSE Val(seed, f, 0)]

\* one column per field of the schema, row i generated from seeds[i]
ColumnsFor(dtypes, seeds) ==
    [f \in 1 .. Len(dtypes) |-> [i \in 1 .. Len(seeds) |-> AttrsFor(dtypes, seeds[i])[f]]]

----------------------------------------------------------------------------
(* Small helpers *)

Range(s) == {s[i] : i \in 1 .. Len(s)}

InsertAt(s, pos, x) == SubSeq(s, 1, pos) \o <<x>> \o SubSeq(s, pos + 1, Len(s))

RECURSIVE SelectSeq2(_, _, _)
SelectSeq2(s, Keep(_), i) ==
    IF i > Len(s) THEN <<>>
    ELSE (IF Keep(s[i]) THEN <<s[i]>> ELSE <<>>) \o SelectSeq2(s, Keep, i + 1)

\* f extended (or overwritten) at x
Ext(f, x, y) == [z \in DOMAIN f \cup {x} |-> IF z = x THEN y ELSE f[z]]

\* f restricted to S
Restrict(f, S) == [z \in S |-> f[z]]

NoRecords == [z \in {} |-> <<>>]

----------------------------------------------------------------------------
(* The instantiation of graph_lite::Graph, lines 14-24 *)

EdgeDirection == "UNDIRECTED"
MultiEdgeMut == "ALLOWED"
MultiEdge == "DISALLOWED"
SelfLoop == "DISALLOWED"

----------------------------------------------------------------------------
(* The graph store (graph_lite::Graph as the template declares it, lines    *)
(* 27-65). A store is a record:                                            *)
(*   order         the keys in the store's iteration order, begin() to end()*)
(*   nprop         key -> NodeData                                          *)
(*   adj           key -> the neighbour entries of the key, each a pair     *)
(*                 (first: the neighbour, second: a reference to EdgeData)  *)
(*   eprop         reference -> EdgeData                                    *)
(*   num_of_edges  the edge count                                           *)

EmptyGraph ==
    [order |-> <<>>, nprop |-> NoRecords, adj |-> NoRecords, eprop |-> NoRecords,
     num_of_edges |-> 0]

Nodes(g) == DOMAIN g.nprop

NeighborKeys(g, node) == {g.adj[node][i].first : i \in 1 .. Len(g.adj[node])}

\* int add_node_with_prop(NodeType& node, NodeData& prop): 1 and the node is
\* stored, or 0 and nothing changes when the key is present. slot is the
\* place the hash map gives the key in its iteration order.
graph_add_node_with_prop(g, node, prop, slot) ==
    IF node \in Nodes(g) THEN [g |-> g, rc |-> 0]
    ELSE [g |-> [g EXCEPT !.order = InsertAt(@, slot % (Len(@) + 1), node),
                          !.nprop = Ext(@, node, prop),
                          !.adj = Ext(@, node, <<>>)],
          rc |-> 1]

\* int add_edge_with_prop(NodeType& source, NodeType& target, EdgeData& prop)
graph_add_edge_with_prop(g, source, target, prop) ==
    IF source \notin Nodes(g) \/ target \notin Nodes(g) THEN [g |-> g, rc |-> 0]
    ELSE IF SelfLoop = "DISALLOWED" /\ source = target THEN [g |-> g, rc |-> 0]
    ELSE IF MultiEdge = "DISALLOWED" /\ target \in NeighborKeys(g, source)
         THEN [g |-> g, rc |-> 0]
    ELSE LET ref == {source, target}
         IN  [g |-> [g EXCEPT
                        !.adj = [n \in DOMAIN @ |->
                                    IF n = source
                                    THEN Append(@[n], [first |-> target, second |-> ref])
                                    ELSE IF n = target /\ EdgeDirection = "UNDIRECTED"
                                    THEN Append(@[n], [first |-> source, second |-> ref])
                                    ELSE @[n]],
                        !.eprop = Ext(@, ref, prop),
                        !.num_of_edges = @ + 1],
              rc |-> 1]

\* int remove_nodes(NodeType& node): the node and every edge incident to it
graph_remove_nodes(g, node) ==
    IF node \notin Nodes(g) THEN [g |-> g, rc |-> 0]
    ELSE LET rest == Nodes(g) \ {node}
             NotNode(k) == k # node
             NotToNode(e) == e.first # node
         IN  [g |-> [order |-> SelectSeq2(g.order, NotNode, 1),
                     nprop |-> Restrict(g.nprop, rest),
                     adj |-> [n \in rest |-> SelectSeq2(g.adj[n], NotToNode, 1)],
                     eprop |-> Restrict(g.eprop, {r \in DOMAIN g.eprop : node \notin r}),
                     num_of_edges |-> g.num_of_edges - Len(g.adj[node])],
              rc |-> 1]

\* NodeData& node_prop(T& node)
graph_node_prop(g, node) == g.nprop[node]

\* pair[NeighborsIterator, NeighborsIterator] neighbors(node)
graph_neighbors(g, node) == g.adj[node]

\* the entry of v among the neighbours of u
NeighborEntry(g, u, v) ==
    LET view == graph_neighbors(g, u)
    IN  view[CHOOSE i \in 1 .. Len(view) : view[i].first = v]

\* EdgeData& edge_prop(T& u, T& v)
graph_edge_prop(g, u, v) == g.eprop[NeighborEntry(g, u, v).second]

\* int count_neighbors(NodeType& node)
graph_count_neighbors(g, node) == Len(g.adj[node])

\* size_t size() const
graph_size(g) == Len(g.order)

\* size_t num_edges() const
graph_num_edges(g) == g.num_of_edges

\* Iterator begin() .. end()
graph_begin_end(g) == g.order

----------------------------------------------------------------------------
(* The attribute record classes NodeData and EdgeData, lines 69-121, and    *)
(* the constructor calls the template renders for them                     *)

\* tokens of a rendered argument list: an argument names field `name` of the
\* schema (`_p_<name>` when ptr, `<name>` or `<name>[i]` otherwise); a
\* separator is ", "
ArgTok(f, isptr) == [k |-> "arg", name |-> f, ptr |-> isptr]
SepTok == [k |-> "sep", name |-> 0, ptr |-> FALSE]

\* lines 186-197: the arguments of ${Kind}Data(...) in add_node / add_edge.
\* sep is what $sep holds when field f is rendered.
RECURSIVE SingleCtorTokens(_, _, _)
SingleCtorTokens(dtypes, f, sep) ==
    IF f > Len(dtypes) THEN <<>>
    ELSE IF dtypes[f] = "array"
         THEN sep \o <<ArgTok(f, TRUE)>> \o SingleCtorTokens(dtypes, f + 1, sep)
         ELSE sep \o <<ArgTok(f, FALSE)>> \o SingleCtorTokens(dtypes, f + 1, <<SepTok>>)

\* lines 232-243: the arguments of ${Kind}Data(...) in add_nodes / add_edges
RECURSIVE BulkCtorTokens(_, _, _)
BulkCtorTokens(dtypes, f, sep) ==
    IF f > Len(dtypes) THEN <<>>
    ELSE IF dtypes[f] = "array"
         THEN sep \o <<ArgTok(f, TRUE)>> \o BulkCtorTokens(dtypes, f + 1, <<SepTok>>)
         ELSE sep \o <<ArgTok(f, FALSE)>> \o BulkCtorTokens(dtypes, f + 1, <<SepTok>>)

\* the arguments of a rendered call: the tokens between the separators, each
\* argument the sequence of the field names that were written without a
\* separator between them
RECURSIVE SplitArgs(_, _, _)
SplitArgs(tokens, i, cur) ==
    IF i > Len(tokens) THEN <<cur>>
    ELSE IF tokens[i].k = "sep" THEN <<cur>> \o SplitArgs(tokens, i + 1, <<>>)
    ELSE SplitArgs(tokens, i + 1, Append(cur, tokens[i]))

\* lines 111-117: the one constructor Cython is told of takes one argument per
\* field, in schema order, a pointer for an array field. A rendered call
\* compiles when it has exactly these arguments, each a single declared name.
CallCompiles(dtypes, tokens) ==
    LET args == SplitArgs(tokens, 1, <<>>)
    IN  /\ Len(args) = Len(dtypes)
        /\ \A f \in 1 .. Len(dtypes) : args[f] = <<ArgTok(f, dtypes[f] = "array")>>

\* the module rendered for the two schemas compiles, so that a graph exists
Compiles(ndtypes, edtypes) ==
    /\ CallCompiles(ndtypes, SingleCtorTokens(ndtypes, 1, <<>>))
    /\ CallCompiles(ndtypes, BulkCtorTokens(ndtypes, 1, <<>>))
    /\ CallCompiles(edtypes, SingleCtorTokens(edtypes, 1, <<>>))
    /\ CallCompiles(edtypes, BulkCtorTokens(edtypes, 1, <<>>))

\* a pointer into a buffer: &buf[off]
Ptr(buf, off) == [buf |-> buf, off |-> off]

\* lines 174-178 and 186-197: the argument values of the single call;
\* _p_<name> = &<name>[0]
SingleCtorArgs(dtypes, attrs) ==
    LET args == SplitArgs(SingleCtorTokens(dtypes, 1, <<>>), 1, <<>>)
    IN  [a \in 1 .. Len(args) |->
            LET tok == args[a][1]
            IN  IF tok.ptr THEN Ptr(attrs[tok.name], 0) ELSE attrs[tok.name]]

\* lines 221-225 and 232-243: the argument values of the call for row i;
\* _p_<name> = &<name>[i, 0] and <name>[i]
BulkCtorArgsRow0(dtypes, cols, i) ==
    LET args == SplitArgs(BulkCtorTokens(dtypes, 1, <<>>), 1, <<>>)
    IN  [a \in 1 .. Len(args) |->
            LET tok == args[a][1]
            IN  IF tok.ptr THEN Ptr(cols[tok.name][1], 0) ELSE cols[tok.name][1]]
BulkCtorArgs(dtypes, cols, i) ==
    LET args == SplitArgs(BulkCtorTokens(dtypes, 1, <<>>), 1, <<>>)
    IN  [a \in 1 .. Len(args) |->
            LET tok == args[a][1]
            IN  IF tok.ptr THEN Ptr(cols[tok.name][i], 0) ELSE cols[tok.name][i]]

\* lines 75-101: the constructor copies its arguments into the fields, an
\* array field element by element from the pointer it is given
DataClass(dtypes, args) ==
    [f \in 1 .. Len(dtypes) |->
        IF dtypes[f] = "array"
        THEN [j \in 1 .. ArrSize |-> args[f].buf[args[f].off + j]]
        ELSE args[f]]

NodeData(args) == DataClass(node_dtypes, args)
EdgeData(args) == DataClass(edge_dtypes, args)

----------------------------------------------------------------------------
(* class UndirectedGraph, lines 152-543. Every method is an operator on the *)
(* store; a mutating method gives the new store and what the caller is told *)
(* (raised: the exception, "none" when the call returns normally).          *)

\* lines 160-198, kind = node. The int add_node_with_prop returns is dropped.
add_node(g, node, attrs, slot) ==
    LET r == graph_add_node_with_prop(g, node,
                                      NodeData(SingleCtorArgs(node_dtypes, attrs)), slot)
    IN  [g |-> r.g, raised |-> "none"]

\* lines 160-198, kind = edge
add_edge(g, edge, attrs) ==
    LET r == graph_add_edge_with_prop(g, edge[1], edge[2],
                                      EdgeData(SingleCtorArgs(edge_dtypes, attrs)))
    IN  [g |-> r.g, raised |-> "none"]

\* lines 220-244, kind = node: for i in range(len(nodes))
RECURSIVE add_nodes_loop(_, _, _, _, _)
add_nodes_loop(g, nodes, cols, slots, i) ==
    IF i > Len(nodes) THEN g
    ELSE add_nodes_loop(
            graph_add_node_with_prop(g, nodes[i],
                                     NodeData(BulkCtorArgs(node_dtypes, cols, i)),
                                     slots[i]).g,
            nodes, cols, slots, i + 1)

\* lines 200-244, kind = node
add_nodesSkipLast(g, nodes, cols, slots) ==
    [g |-> add_nodes_loop(g, SubSeq(nodes, 1, Len(nodes) - 1), cols, slots, 1),
     raised |-> "none"]
add_nodes(g, nodes, cols, slots) ==
    [g |-> add_nodes_loop(g, nodes, cols, slots, 1), raised |-> "none"]

\* lines 220-244, kind = edge: for i in range(len(edges))
RECURSIVE add_edges_loop(_, _, _, _)
add_edges_loop(g, edges, cols, i) ==
    IF i > Len(edges) THEN g
    ELSE add_edges_loop(
            graph_add_edge_with_prop(g, edges[i][1], edges[i][2],
                                     EdgeData(BulkCtorArgs(edge_dtypes, cols, i))).g,
            edges, cols, i + 1)

\* lines 200-244, kind = edge
add_edges(g, edges, cols) ==
    [g |-> add_edges_loop(g, edges, cols, 1), raised |-> "none"]

\* lines 247-261, data = False: the keys from begin() to end()
nodes(g) == graph_begin_end(g)

\* line 284: the pair is yielded when u < v
EdgeKeptAll(u, v) == TRUE
EdgeKept(u, v) == u < v

\* lines 282-290: the neighbours of u, from entry i on
RECURSIVE edges_of(_, _, _)
edges_of(u, view, i) ==
    IF i > Len(view) THEN <<>>
    ELSE (IF EdgeKept(u, view[i].first) THEN <<<<u, view[i].first>>>> ELSE <<>>)
         \o edges_of(u, view, i + 1)

\* lines 277-291: the nodes from position n of the store on
RECURSIVE edges_loop(_, _)
edges_loop(g, n) ==
    IF n > Len(graph_begin_end(g)) THEN <<>>
    ELSE LET u == graph_begin_end(g)[n]
         IN  edges_of(u, graph_neighbors(g, u), 1) \o edges_loop(g, n + 1)

\* lines 263-291, node = None, data = False
edges(g) == edges_loop(g, 1)

\* lines 505-506
remove_nodeNoCall(g, node) == [g |-> g, raised |-> "none"]
remove_node(g, node) == [g |-> graph_remove_nodes(g, node).g, raised |-> "none"]

\* lines 510-518: one count per key of the array
count_neighbors(g, keys) == [i \in 1 .. Len(keys) |-> graph_count_neighbors(g, keys[i])]

\* lines 537-538, __len__
len(g) == graph_size(g)

\* lines 540-541
num_edges(g) == graph_num_edges(g)

\* what np.empty leaves in a row that is never written
Uninit(dtype) == IF dtype = "array" THEN [j \in 1 .. ArrSize |-> -1] ELSE -1

\* lines 338-343
get_node_data(g, name, node) == graph_node_prop(g, node)[name]

\* lines 363-373: view[i] is written from the node at the iterator, then both
\* advance; i counts the rows written so far
RECURSIVE get_nodes_data_all(_, _, _, _)
get_nodes_data_all(g, name, view, i) ==
    IF i >= Len(graph_begin_end(g)) THEN view
    ELSE get_nodes_data_all(
            g, name,
            [view EXCEPT ![i + 1] = graph_node_prop(g, graph_begin_end(g)[i + 1])[name]],
            i + 1)

\* lines 345-385; keys is "None" or a sequence of keys
get_nodes_dataLate(g, name, keys) ==
    LET num_nodes == IF keys = "None" THEN graph_size(g) ELSE Len(keys)
        data == [i \in 1 .. num_nodes |-> Uninit(node_dtypes[name])]
    IN  IF keys = "None"
        THEN [i \in 1 .. num_nodes |->
                IF i = 1 THEN data[i] ELSE get_nodes_data_all(g, name, data, 0)[i - 1]]
        ELSE [i \in 1 .. num_nodes |-> graph_node_prop(g, keys[i])[name]]
get_nodes_data(g, name, keys) ==
    LET num_nodes == IF keys = "None" THEN graph_size(g) ELSE Len(keys)
        data == [i \in 1 .. num_nodes |-> Uninit(node_dtypes[name])]
    IN  IF keys = "None" THEN get_nodes_data_all(g, name, data, 0)
        ELSE [i \in 1 .. num_nodes |-> graph_node_prop(g, keys[i])[name]]

\* lines 416-421
get_edge_data(g, name, u, v) == graph_edge_prop(g, u, v)[name]

\* lines 481-485
set_edge_dataOrdered(g, name, u, v, value) ==
    IF u < v
    THEN [g |-> [g EXCEPT !.eprop[NeighborEntry(g, u, v).second][name] = value],
          raised |-> "none"]
    ELSE [g |-> g, raised |-> "none"]
set_edge_data(g, name, u, v, value) ==
    [g |-> [g EXCEPT !.eprop[NeighborEntry(g, u, v).second][name] = value],
     raised |-> "none"]

\* np.sum over the counts, from entry i on
RECURSIVE np_sum(_, _)
np_sum(counts, i) == IF i > Len(counts) THEN 0 ELSE counts[i] + np_sum(counts, i + 1)

\* lines 543-544: the rows edges_by_nodes allocates, one per neighbour entry
\* of every key of the array, a repeated key counted every time
_num_edgesLen(g, keys) == Len(keys)
_num_edges(g, keys) == np_sum(count_neighbors(g, keys), 1)

\* lines 310-316: the neighbours of u from entry n on. st is the state of the
\* call: edges (the rows of the allocated array), i (the row index), writes
\* (every index a row was written at, in order) and raised. A row index
\* outside the array is refused by the bounds check of the memory view.
RECURSIVE edges_by_nodes_of(_, _, _, _)
edges_by_nodes_of(u, view, n, st) ==
    IF n > Len(view) \/ st.raised # "none" THEN st
    ELSE LET v == view[n].first
         IN  edges_by_nodes_of(u, view, n + 1,
                IF u < v
                THEN IF st.i < Len(st.edges)
                     THEN [st EXCEPT !.edges[st.i + 1] = <<u, v>>,
                                     !.writes = Append(@, st.i),
                                     !.i = @ + 1]
                     ELSE [st EXCEPT !.writes = Append(@, st.i),
                                     !.raised = "IndexError"]
                ELSE st)

\* lines 306-316: for u in nodes, from key k of the array on
RECURSIVE edges_by_nodes_loop(_, _, _, _)
edges_by_nodes_loop(g, keys, k, st) ==
    IF k > Len(keys) THEN st
    ELSE edges_by_nodes_loop(g, keys, k + 1,
            edges_by_nodes_of(keys[k], graph_neighbors(g, keys[k]), 1, st))

\* lines 294-318: ret is data[:i]; alloc is the number of rows of data
edges_by_nodesWhole(g, keys) ==
    LET alloc == _num_edges(g, keys)
        data == [r \in 1 .. alloc |-> <<-1, -1>>]
        st == edges_by_nodes_loop(g, keys, 1,
                 [edges |-> data, i |-> 0, writes |-> <<>>, raised |-> "none"])
    IN  [ret |-> IF st.raised = "none" THEN st.edges ELSE <<>>,
         alloc |-> alloc, writes |-> st.writes, raised |-> st.raised]
edges_by_nodes(g, keys) ==
    LET alloc == _num_edges(g, keys)
        data == [r \in 1 .. alloc |-> <<-1, -1>>]
        st == edges_by_nodes_loop(g, keys, 1,
                 [edges |-> data, i |-> 0, writes |-> <<>>, raised |-> "none"])
    IN  [ret |-> IF st.raised = "none" THEN SubSeq(st.edges, 1, st.i) ELSE <<>>,
         alloc |-> alloc, writes |-> st.writes, raised |-> st.raised]

\* line 410: the length check of the bulk setters is an assert; what the
\* caller is told of a length mismatch is an AssertionError
LengthMismatch == "AssertionError"

\* $dtype.to_rvalue(name=$name, array_index="i"), lines 403 and 498: row i of
\* the value array; i counts from 0
to_rvalue(values, i) == values[i + 1]

\* lines 405-408: the nodes from position i + 1 of the store on, row i of the
\* values for each. st is the store and what is raised; a row index outside
\* the value array is refused by the bounds check of the memory view.
RECURSIVE set_nodes_data_all(_, _, _, _)
set_nodes_data_all(st, name, values, i) ==
    IF i >= Len(graph_begin_end(st.g)) \/ st.raised # "none" THEN st
    ELSE set_nodes_data_all(
            IF i < Len(values)
            THEN [st EXCEPT !.g.nprop[graph_begin_end(st.g)[i + 1]][name] =
                                to_rvalue(values, i)]
            ELSE [st EXCEPT !.raised = "IndexError"],
            name, values, i + 1)

\* lines 411-412: for i in range(len(nodes))
RECURSIVE set_nodes_data_loop(_, _, _, _, _)
set_nodes_data_loop(st, name, keys, values, i) ==
    IF i >= Len(keys) \/ st.raised # "none" THEN st
    ELSE set_nodes_data_loop(
            IF i < Len(values)
            THEN [st EXCEPT !.g.nprop[keys[i + 1]][name] = to_rvalue(values, i)]
            ELSE [st EXCEPT !.raised = "IndexError"],
            name, keys, values, i + 1)

\* nodes=None of the bulk setter: the array that is no key array
NoKeys == <<-1>>

\* lines 393-412; keys is NoKeys (nodes is None) or a sequence of keys
set_nodes_data(g, name, keys, values) ==
    IF keys = NoKeys
    THEN set_nodes_data_all([g |-> g, raised |-> "none"], name, values, 0)
    ELSE IF Len(keys) # Len(values) THEN [g |-> g, raised |-> LengthMismatch]
    ELSE set_nodes_data_loop([g |-> g, raised |-> "none"], name, keys, values, 0)

\* lines 499-500: for i in range(num_edges)
RECURSIVE set_edges_data_loop(_, _, _, _, _, _)
set_edges_data_loop(st, name, us, vs, values, i) ==
    IF i >= Len(us) \/ st.raised # "none" THEN st
    ELSE set_edges_data_loop(
            IF i < Len(values)
            THEN [st EXCEPT
                    !.g.eprop[NeighborEntry(st.g, us[i + 1], vs[i + 1]).second][name] =
                        to_rvalue(values, i)]
            ELSE [st EXCEPT !.raised = "IndexError"],
            name, us, vs, values, i + 1)

\* lines 487-500: the assert compares the two endpoint arrays, num_edges is
\* len(us); the value array is not measured
set_edges_data(g, name, us, vs, values) ==
    IF Len(us) # Len(vs) THEN [g |-> g, raised |-> "AssertionError"]
    ELSE set_edges_data_loop([g |-> g, raised |-> "none"], name, us, vs, values, 0)

\* lines 131-137: the getter of a field of a view reads the record _ptr
\* points to; ptr is the key of that record
View_get(g, ptr, name) == graph_node_prop(g, ptr)[name]

\* lines 139-141: the setter writes the record _ptr points to
View_set(g, ptr, name, value) == [g EXCEPT !.nprop[ptr][name] = value]

\* a generator of nodes(data=True) or nodes_data(nodes): the keys it walks
\* (the array of nodes_data), the number of items yielded, the record its one
\* NodeDataView object points to (-1: not set), the keys the caller was
\* handed that view with, and whether it is exhausted
NoGen == [op |-> "none", keys |-> <<>>, it |-> 0, ptr |-> -1, held |-> <<>>,
          done |-> FALSE]

\* lines 249-257, data = True: node_data = NodeDataView() is made once, and
\* every step points it at the record of the node at the iterator and yields
\* the key with it
nodes_next(g, gn) ==
    IF gn.it >= Len(graph_begin_end(g)) THEN [gn EXCEPT !.done = TRUE]
    ELSE LET key == graph_begin_end(g)[gn.it + 1]
         IN  [gn EXCEPT !.ptr = key, !.held = Append(@, key), !.it = @ + 1]

\* lines 322-326: the same for the keys of the array
nodes_data_next(g, gn) ==
    IF gn.it >= Len(gn.keys) THEN [gn EXCEPT !.done = TRUE]
    ELSE LET key == gn.keys[gn.it + 1]
         IN  [gn EXCEPT !.ptr = key, !.held = Append(@, key), !.it = @ + 1]

----------------------------------------------------------------------------
(* The calls a program makes *)

NoCall ==
    [op |-> "none", node |-> 0, edge |-> <<0, 0>>, attrs |-> <<>>, nodes |-> <<>>,
     edges |-> <<>>, cols |-> <<>>, name |-> 0, value |-> 0, ret |-> <<>>,
     alloc |-> 0, writes |-> <<>>, raised |-> "none"]

\* slot is drawn only where the store places the key: a key that is present
\* is placed nowhere
AddNode(node, seed, slot) ==
    /\ compiled
    /\ slot <= (IF node \in Nodes(graph) THEN 0 ELSE Len(graph.order))
    /\ LET attrs == AttrsFor(node_dtypes, seed)
           r == add_node(graph, node, attrs, slot)
       IN  /\ graph' = r.g
           /\ last' = [NoCall EXCEPT !.op = "add_node", !.node = node, !.attrs = attrs,
                                     !.raised = r.raised]
    /\ prev' = graph
    /\ added' = added \cup {node}
    /\ UNCHANGED <<node_dtypes, edge_dtypes, compiled, gen>>

AddNodes(keys, seeds, slots) ==
    /\ compiled
    /\ Len(seeds) = Len(keys)
    /\ Len(slots) = Len(keys)
    /\ LET cols == ColumnsFor(node_dtypes, seeds)
           r == add_nodes(graph, keys, cols, slots)
       IN  /\ graph' = r.g
           /\ last' = [NoCall EXCEPT !.op = "add_nodes", !.nodes = keys, !.cols = cols,
                                     !.raised = r.raised]
    /\ prev' = graph
    /\ added' = added \cup Range(keys)
    /\ UNCHANGED <<node_dtypes, edge_dtypes, compiled, gen>>

AddEdge(edge, seed) ==
    /\ compiled
    /\ LET attrs == AttrsFor(edge_dtypes, seed)
           r == add_edge(graph, edge, attrs)
       IN  /\ graph' = r.g
           /\ last' = [NoCall EXCEPT !.op = "add_edge", !.edge = edge, !.attrs = attrs,
                                     !.raised = r.raised]
    /\ prev' = graph
    /\ UNCHANGED <<node_dtypes, edge_dtypes, compiled, added, gen>>

AddEdges(pairs, seeds) ==
    /\ compiled
    /\ Len(seeds) = Len(pairs)
    /\ LET cols == ColumnsFor(edge_dtypes, seeds)
           r == add_edges(graph, pairs, cols)
       IN  /\ graph' = r.g
           /\ last' = [NoCall EXCEPT !.op = "add_edges", !.edges = pairs, !.cols = cols,
                                     !.raised = r.raised]
    /\ prev' = graph
    /\ UNCHANGED <<node_dtypes, edge_dtypes, compiled, added, gen>>

RemoveNode(node) ==
    /\ compiled
    /\ LET r == remove_node(graph, node)
       IN  /\ graph' = r.g
           /\ last' = [NoCall EXCEPT !.op = "remove_node", !.node = node,
                                     !.raised = r.raised]
    /\ prev' = graph
    /\ added' = added \ {node}
    /\ UNCHANGED <<node_dtypes, edge_dtypes, compiled, gen>>

\* the setter is called for an edge of the graph
SetEdgeData(name, u, v, seed) ==
    /\ compiled
    /\ name \in 1 .. Len(edge_dtypes)
    /\ u \in Nodes(graph) /\ v \in NeighborKeys(graph, u)
    /\ LET value == AttrsFor(edge_dtypes, seed)[name]
           r == set_edge_data(graph, name, u, v, value)
       IN  /\ graph' = r.g
           /\ last' = [NoCall EXCEPT !.op = "set_edge_data", !.name = name,
                                     !.edge = <<u, v>>, !.value = value,
                                     !.raised = r.raised]
    /\ prev' = graph
    /\ UNCHANGED <<node_dtypes, edge_dtypes, compiled, added, gen>>

GetNodesData(name) ==
    /\ compiled
    /\ name \in 1 .. Len(node_dtypes)
    /\ last' = [NoCall EXCEPT !.op = "get_nodes_data", !.name = name,
                              !.ret = get_nodes_data(graph, name, "None")]
    /\ prev' = graph
    /\ UNCHANGED <<node_dtypes, edge_dtypes, compiled, graph, added, gen>>

\* the keys of the array are nodes of the graph; the array is not empty. The
\* call leaves the graph as it is, so a call that follows another reaches no
\* state that a single call does not reach.
EdgesByNodes(keys) ==
    /\ compiled
    /\ last.op # "edges_by_nodes"
    /\ Len(keys) > 0
    /\ Range(keys) \subseteq Nodes(graph)
    /\ LET r == edges_by_nodes(graph, keys)
       IN  last' = [NoCall EXCEPT !.op = "edges_by_nodes", !.nodes = keys,
                                  !.ret = r.ret, !.alloc = r.alloc,
                                  !.writes = r.writes, !.raised = r.raised]
    /\ prev' = graph
    /\ UNCHANGED <<node_dtypes, edge_dtypes, compiled, graph, added, gen>>

\* the keys of the array are nodes of the graph
SetNodesData(name, keys, seeds) ==
    /\ compiled
    /\ name \in 1 .. Len(node_dtypes)
    /\ keys # NoKeys => Range(keys) \subseteq Nodes(graph)
    /\ LET values == ColumnsFor(node_dtypes, seeds)[name]
           r == set_nodes_data(graph, name, keys, values)
       IN  /\ graph' = r.g
           /\ last' = [NoCall EXCEPT !.op = "set_nodes_data", !.name = name,
                                     !.nodes = keys, !.cols = values,
                                     !.raised = r.raised]
    /\ prev' = graph
    /\ UNCHANGED <<node_dtypes, edge_dtypes, compiled, added, gen>>

\* every pair (us[i], vs[i]) is an edge of the graph
SetEdgesData(name, us, vs, seeds) ==
    /\ compiled
    /\ name \in 1 .. Len(edge_dtypes)
    /\ \A i \in 1 .. Len(us) :
          /\ us[i] \in Nodes(graph)
          /\ i <= Len(vs) => vs[i] \in NeighborKeys(graph, us[i])
    /\ LET values == ColumnsFor(edge_dtypes, seeds)[name]
           r == set_edges_data(graph, name, us, vs, values)
       IN  /\ graph' = r.g
           /\ last' = [NoCall EXCEPT !.op = "set_edges_data", !.name = name,
                                     !.edges = <<us, vs>>, !.cols = values,
                                     !.raised = r.raised]
    /\ prev' = graph
    /\ UNCHANGED <<node_dtypes, edge_dtypes, compiled, added, gen>>

\* add_node while the caller holds no generator
AddNodeFirst(node, seed, slot) ==
    /\ gen.op = "none"
    /\ AddNode(node, seed, slot)

\* g.nodes(data=True): a new generator; nothing of its body has run
NodesCall ==
    /\ compiled
    /\ gen.op = "none"
    /\ gen' = [NoGen EXCEPT !.op = "nodes"]
    /\ last' = [NoCall EXCEPT !.op = "nodes"]
    /\ prev' = graph
    /\ UNCHANGED <<node_dtypes, edge_dtypes, compiled, graph, added>>

\* next() of the generator of nodes(data=True)
NodesNext ==
    /\ gen.op = "nodes"
    /\ ~gen.done
    /\ gen' = nodes_next(graph, gen)
    /\ last' = [NoCall EXCEPT !.op = "next", !.node = gen'.ptr,
                              !.raised = IF gen'.done THEN "StopIteration" ELSE "none"]
    /\ prev' = graph
    /\ UNCHANGED <<node_dtypes, edge_dtypes, compiled, graph, added>>

\* g.nodes_data(keys), the keys nodes of the graph
NodesDataCall(keys) ==
    /\ compiled
    /\ gen.op = "none"
    /\ Range(keys) \subseteq Nodes(graph)
    /\ gen' = [NoGen EXCEPT !.op = "nodes_data", !.keys = keys]
    /\ last' = [NoCall EXCEPT !.op = "nodes_data", !.nodes = keys]
    /\ prev' = graph
    /\ UNCHANGED <<node_dtypes, edge_dtypes, compiled, graph, added>>

\* next() of the generator of nodes_data
NodesDataNext ==
    /\ gen.op = "nodes_data"
    /\ ~gen.done
    /\ gen' = nodes_data_next(graph, gen)
    /\ last' = [NoCall EXCEPT !.op = "next", !.node = gen'.ptr,
                              !.raised = IF gen'.done THEN "StopIteration" ELSE "none"]
    /\ prev' = graph
    /\ UNCHANGED <<node_dtypes, edge_dtypes, compiled, graph, added>>

\* the caller writes field name through the view it was handed as item h
ViewSet(h, name, seed) ==
    /\ h \in 1 .. Len(gen.held)
    /\ name \in 1 .. Len(node_dtypes)
    /\ LET value == AttrsFor(node_dtypes, seed)[name]
       IN  /\ graph' = View_set(graph, gen.ptr, name, value)
           /\ last' = [NoCall EXCEPT !.op = "view_set", !.node = gen.held[h],
                                     !.name = name, !.value = value]
    /\ prev' = graph
    /\ UNCHANGED <<node_dtypes, edge_dtypes, compiled, added, gen>>

----------------------------------------------------------------------------
(* Specifications *)

\* a graph of any schema pair, just constructed
Init ==
    /\ node_dtypes \in Schemas
    /\ edge_dtypes \in Schemas
    /\ compiled = Compiles(node_dtypes, edge_dtypes)
    /\ graph = EmptyGraph
    /\ prev = EmptyGraph
    /\ last = NoCall
    /\ added = {}
    /\ gen = NoGen

\* the seeds of the rows of a bulk call: consecutive rows differ
RowSeeds(n) == {[i \in 1 .. n |-> (s + i - 1) % (MaxSeed + 1)] : s \in Seeds}

\* the places the hash map gives the keys of a bulk call
RowSlots(n, K) == {[i \in 1 .. n |-> s] : s \in K}

\* every call, on the keys 0 .. MaxAttrKey
Next ==
    \/ \E node \in AttrKeys, seed \in Seeds, slot \in AttrKeys : AddNode(node, seed, slot)
    \/ \E keys \in SeqsUpTo(AttrKeys, MaxBatch) :
         \E seeds \in RowSeeds(Len(keys)), slots \in RowSlots(Len(keys), AttrKeys) :
            AddNodes(keys, seeds, slots)
    \/ \E u \in AttrKeys, v \in AttrKeys, seed \in Seeds : AddEdge(<<u, v>>, seed)
    \/ \E pairs \in SeqsUpTo(AttrKeys \X AttrKeys, MaxBatch) :
         \E seeds \in RowSeeds(Len(pairs)) : AddEdges(pairs, seeds)
    \/ \E node \in AttrKeys : RemoveNode(node)
    \/ \E name \in 1 .. MaxFields, u \in AttrKeys, v \in AttrKeys, seed \in Seeds :
         SetEdgeData(name, u, v, seed)
    \/ \E name \in 1 .. MaxFields : GetNodesData(name)

Spec == Init /\ [][Next]_vars

\* the graph of the specification's example: nodes with a position array,
\* edges with a scalar weight
InitStruct ==
    /\ node_dtypes = <<"array">>
    /\ edge_dtypes = <<"scalar">>
    /\ compiled = Compiles(node_dtypes, edge_dtypes)
    /\ graph = EmptyGraph
    /\ prev = EmptyGraph
    /\ last = NoCall
    /\ added = {}
    /\ gen = NoGen

\* the structural calls, on the keys 0 .. MaxKey, every record from seed 0
NextStruct ==
    \/ \E node \in Keys, slot \in Keys : AddNode(node, 0, slot)
    \/ \E u \in Keys, v \in Keys : AddEdge(<<u, v>>, 0)
    \/ \E node \in Keys : RemoveNode(node)

SpecStruct == InitStruct /\ [][NextStruct]_vars

\* the place of a new key that keeps the store's iteration order ascending
SortedSlot(node) == Cardinality({k \in Nodes(graph) : k < node})

\* the graph of the example, built by add_node and add_edge and queried by
\* edges_by_nodes with arrays of 1 .. MaxBatch keys, repeated keys included.
\* edges_by_nodes walks its array and the neighbours of each key, never the
\* store's iteration order, so one order of the nodes is enough here.
NextEdges ==
    \/ \E node \in Keys : AddNode(node, 0, SortedSlot(node))
    \/ \E u \in Keys, v \in Keys : AddEdge(<<u, v>>, 0)
    \/ \E keys \in SeqsUpTo(Keys, MaxBatch) : EdgesByNodes(keys)

SpecEdges == InitStruct /\ [][NextEdges]_vars

\* the value rows of a bulk setter: 0 .. MaxBatch rows
ValueSeeds == UNION {RowSeeds(n) : n \in 0 .. MaxBatch}

\* the graph of the example on the keys 0 .. MaxAttrKey, and the bulk setters
\* called with any number of value rows
NextSet ==
    \/ \E node \in AttrKeys, seed \in Seeds, slot \in AttrKeys : AddNode(node, seed, slot)
    \/ \E u \in AttrKeys, v \in AttrKeys, seed \in Seeds : AddEdge(<<u, v>>, seed)
    \/ \E keys \in SeqsUpTo(AttrKeys, MaxBatch) \cup {NoKeys}, seeds \in ValueSeeds :
         SetNodesData(1, keys, seeds)
    \/ \E us \in SeqsUpTo(AttrKeys, MaxBatch), vs \in SeqsUpTo(AttrKeys, MaxBatch),
          seeds \in ValueSeeds :
         SetEdgesData(1, us, vs, seeds)

SpecSet == InitStruct /\ [][NextSet]_vars

\* nodes are added on the keys 0 .. MaxAttrKey; then the caller iterates
\* nodes(data=True) or nodes_data and uses the views it is handed. No node is
\* added or removed once a generator exists.
NextView ==
    \/ \E node \in AttrKeys, seed \in Seeds, slot \in AttrKeys :
         AddNodeFirst(node, seed, slot)
    \/ NodesCall
    \/ NodesNext
    \/ \E keys \in SeqsUpTo(AttrKeys, MaxBatch) : NodesDataCall(keys)
    \/ NodesDataNext
    \/ \E h \in 1 .. MaxBatch, seed \in Seeds : ViewSet(h, 1, seed)

SpecView == InitStruct /\ [][NextView]_vars

----------------------------------------------------------------------------
(* Properties *)

\* the endpoints of the pairs a call of edges() yields
Endpoints(es, i) == {es[i][1], es[i][2]}

\* C1: in every graph reached by add_node, add_edge and remove_node, edges()
\* yields num_edges() pairs, every pair has u < v, and every stored edge is
\* yielded exactly once, in whichever endpoint order it was inserted.
C1_EdgesOnce ==
    LET es == edges(graph)
    IN  /\ Len(es) = num_edges(graph)
        /\ \A i \in 1 .. Len(es) : es[i][1] < es[i][2]
        /\ \A i \in 1 .. Len(es) : Endpoints(es, i) \in DOMAIN graph.eprop
        /\ \A r \in DOMAIN graph.eprop :
              Cardinality({i \in 1 .. Len(es) : Endpoints(es, i) = r}) = 1

\* an edge inserted as (v, u) with v > u, in a graph that then has two edges
C1_Witness ==
    /\ last.op = "add_edge"
    /\ last.edge[1] > last.edge[2]
    /\ {last.edge[1], last.edge[2]} \in DOMAIN graph.eprop \ DOMAIN prev.eprop
    /\ <<last.edge[2], last.edge[1]>> \in Range(edges(graph))
    /\ num_edges(graph) = 2

\* C2: after remove_node(k) of a node k, edges() yields no pair with k, nodes()
\* does not yield k, and num_edges() has dropped by the number of neighbours
\* k had.
C2_RemoveNode ==
    (last.op = "remove_node" /\ last.node \in Nodes(prev)) =>
        LET es == edges(graph)
        IN  /\ \A i \in 1 .. Len(es) : last.node \notin Endpoints(es, i)
            /\ last.node \notin Range(nodes(graph))
            /\ num_edges(graph)
                 = num_edges(prev) - count_neighbors(prev, <<last.node>>)[1]

\* a node with two neighbours is removed from a triangle
C2_Witness ==
    /\ last.op = "remove_node"
    /\ last.node \in Nodes(prev)
    /\ count_neighbors(prev, <<last.node>>)[1] = 2
    /\ num_edges(prev) = 3
    /\ num_edges(graph) = 1

\* C3: add_edge(u, v, attrs) with u = v raises SelfLoop, with u or v not a node
\* raises UnknownNode, and leaves the graph as it was.
C3_AddEdgeFails ==
    LET u == last.edge[1]
        v == last.edge[2]
    IN  (last.op = "add_edge" /\ (u = v \/ u \notin Nodes(prev) \/ v \notin Nodes(prev))) =>
            /\ last.raised \in {"SelfLoop", "UnknownNode"}
            /\ u # v => last.raised = "UnknownNode"
            /\ (u \in Nodes(prev) /\ v \in Nodes(prev)) => last.raised = "SelfLoop"
            /\ graph = prev

\* C4: len(graph) is the number of keys added and not since removed, and
\* add_node of a key that is present leaves it as it was.
C4_Size ==
    /\ len(graph) = Cardinality(added)
    /\ (last.op = "add_node" /\ last.node \in Nodes(prev)) => len(graph) = len(prev)

\* add_nodes of a batch that names a new key twice, next to a node that stays
C4_Witness ==
    /\ last.op = "add_nodes"
    /\ Len(last.nodes) = 2
    /\ last.nodes[1] = last.nodes[2]
    /\ last.nodes[1] \notin Nodes(prev)
    /\ len(prev) = 1
    /\ len(graph) = 2

\* C5: add_edge of a pair that is an edge already, in either endpoint order,
\* leaves num_edges() and the neighbour counts of both endpoints as they were.
C5_NoParallelEdge ==
    LET u == last.edge[1]
        v == last.edge[2]
    IN  (last.op = "add_edge" /\ u \in Nodes(prev) /\ v \in NeighborKeys(prev, u)) =>
            /\ num_edges(graph) = num_edges(prev)
            /\ count_neighbors(graph, <<u, v>>) = count_neighbors(prev, <<u, v>>)

\* add_edge (v, u), v > u, of a pair whose entry was stored by add_edge (u, v):
\* the first neighbour of the lower endpoint was stored by a call from it
C5_Witness ==
    LET u == last.edge[1]
        v == last.edge[2]
    IN  /\ last.op = "add_edge"
        /\ u > v
        /\ u \in Nodes(prev)
        /\ v \in NeighborKeys(prev, u)
        /\ num_edges(prev) = 2
        /\ edges(graph) = edges(prev)

\* C6: add_node(key, attrs) of a key that is a node raises DuplicateNode, and
\* the record of the key keeps its values.
C6_DuplicateNode ==
    (last.op = "add_node" /\ last.node \in Nodes(prev)) =>
        /\ last.raised = "DuplicateNode"
        /\ graph_node_prop(graph, last.node) = graph_node_prop(prev, last.node)

\* C7: (u, v) and (v, u) are one record: after add_edge(u, v, a) every field
\* reads the same in both orders, and what set_edge_data writes for (u, v) is
\* read by get_edge_data for (v, u).
C7_EdgeSymmetry ==
    LET u == last.edge[1]
        v == last.edge[2]
    IN  /\ (last.op = "add_edge" /\ u \in Nodes(graph) /\ v \in NeighborKeys(graph, u)) =>
              \A f \in 1 .. Len(edge_dtypes) :
                  get_edge_data(graph, f, v, u) = get_edge_data(graph, f, u, v)
        /\ (last.op = "add_edge" /\ {u, v} \in DOMAIN graph.eprop \ DOMAIN prev.eprop) =>
              \A f \in 1 .. Len(edge_dtypes) : get_edge_data(graph, f, v, u) = last.attrs[f]
        /\ last.op = "set_edge_data" =>
              get_edge_data(graph, last.name, v, u) = last.value

\* set_edge_data for (u, v), u > v, changes an array field of a two-field record
C7_Witness ==
    /\ last.op = "set_edge_data"
    /\ last.edge[1] > last.edge[2]
    /\ Len(edge_dtypes) = 2
    /\ edge_dtypes[last.name] = "array"
    /\ get_edge_data(prev, last.name, last.edge[2], last.edge[1]) # last.value
    /\ get_edge_data(graph, last.name, last.edge[2], last.edge[1]) = last.value

\* C8: for every node schema, add_node(k, a) of a new key k can be called, and
\* get_node_data then returns a[f] for every field f.
C8_NodeRoundTrip ==
    /\ CallCompiles(node_dtypes, SingleCtorTokens(node_dtypes, 1, <<>>))
    /\ (last.op = "add_node" /\ last.node \notin Nodes(prev)) =>
          /\ last.node \in Nodes(graph)
          /\ \A f \in 1 .. Len(node_dtypes) :
                get_node_data(graph, f, last.node) = last.attrs[f]

\* C9: what get_nodes_data(f, None) returned has len(graph) rows, and row i is
\* field f of the i-th key of nodes(), the graph not having changed since.
C9_BulkGetOrder ==
    last.op = "get_nodes_data" =>
        /\ Len(last.ret) = len(graph)
        /\ \A i \in 1 .. Len(last.ret) :
              last.ret[i] = get_node_data(graph, last.name, nodes(graph)[i])

\* an array field of two nodes that differ in it, iterated as 1, 0
C9_Witness ==
    /\ last.op = "get_nodes_data"
    /\ nodes(graph) = <<1, 0>>
    /\ node_dtypes[last.name] = "array"
    /\ last.ret[1] # last.ret[2]

\* add_node for every row in index order: keys[i] with row i of every column
RECURSIVE RepeatAddNode(_, _, _, _)
RepeatAddNode(g, keys, cols, i) ==
    IF i > Len(keys) THEN g
    ELSE RepeatAddNode(
            add_node(g, keys[i], [f \in 1 .. Len(node_dtypes) |-> cols[f][i]], 0).g,
            keys, cols, i + 1)

\* add_edge for every row in index order
RECURSIVE RepeatAddEdge(_, _, _, _)
RepeatAddEdge(g, pairs, cols, i) ==
    IF i > Len(pairs) THEN g
    ELSE RepeatAddEdge(
            add_edge(g, pairs[i], [f \in 1 .. Len(edge_dtypes) |-> cols[f][i]]).g,
            pairs, cols, i + 1)

\* C10: add_nodes leaves the node set and every node record as add_node called
\* for each row in index order leaves them, and add_edges leaves the edges and
\* their records as add_edge called for each row leaves them.
C10_BulkAsRepeated ==
    /\ last.op = "add_nodes" =>
          LET h == RepeatAddNode(prev, last.nodes, last.cols, 1)
          IN  /\ graph.nprop = h.nprop
              /\ graph.eprop = h.eprop
              /\ graph.adj = h.adj
    /\ last.op = "add_edges" =>
          LET h == RepeatAddEdge(prev, last.edges, last.cols, 1)
          IN  graph = h

\* add_nodes of two new keys whose rows differ, the schema a scalar and an array
C10_Witness ==
    /\ last.op = "add_nodes"
    /\ Len(last.nodes) = 2
    /\ last.nodes[1] # last.nodes[2]
    /\ Nodes(prev) = {}
    /\ node_dtypes = <<"scalar", "array">>
    /\ graph.nprop[last.nodes[1]] # graph.nprop[last.nodes[2]]

\* the lower endpoint of an edge reference
Lower(r) == CHOOSE u \in r : \A w \in r : u <= w

C15_RowIndexBound ==
    last.op = "edges_by_nodes" =>
        /\ last.raised = "none"
        /\ last.alloc = np_sum(count_neighbors(graph, last.nodes), 1)
        /\ \A k \in 1 .. Len(last.writes) : last.writes[k] < last.alloc
        /\ Len(last.ret) = Len(last.writes)

\* a key with two higher neighbours, given twice: four rows written of four
C15_Witness ==
    /\ last.op = "edges_by_nodes"
    /\ Len(last.nodes) = 2
    /\ last.nodes[1] = last.nodes[2]
    /\ Len(last.writes) = 4
    /\ last.alloc = 4

\* row i of an add_nodes batch cannot be applied: its key is a node already,
\* or is the key of an earlier row
NodeRowRefused(g, keys, i) ==
    \/ keys[i] \in Nodes(g)
    \/ \E j \in 1 .. i - 1 : keys[j] = keys[i]

\* row i of an add_edges batch cannot be applied: a self-loop, an endpoint
\* that is no node, or an edge that exists or is the edge of an earlier row
EdgeRowRefused(g, pairs, i) ==
    LET u == pairs[i][1]
        v == pairs[i][2]
    IN  \/ u = v
        \/ u \notin Nodes(g)
        \/ v \notin Nodes(g)
        \/ {u, v} \in DOMAIN g.eprop
        \/ \E j \in 1 .. i - 1 : {pairs[j][1], pairs[j][2]} = {u, v}

\* C13: add_nodes or add_edges of a batch with a row that cannot be applied
\* reports an error to the caller instead of returning normally.
C13_BulkFailureReported ==
    /\ (/\ last.op = "add_nodes"
        /\ \E i \in 1 .. Len(last.nodes) : NodeRowRefused(prev, last.nodes, i)) =>
          last.raised # "none"
    /\ (/\ last.op = "add_edges"
        /\ \E i \in 1 .. Len(last.edges) : EdgeRowRefused(prev, last.edges, i)) =>
          last.raised # "none"

\* C16: for every schema the constructor call of add_node / add_edge has one
\* argument per field, in schema order, a separator between every two
\* arguments, and is the argument sequence of the call of add_nodes / add_edges.
C16_CtorArgs ==
    \A dtypes \in {node_dtypes, edge_dtypes} :
        LET single == SingleCtorTokens(dtypes, 1, <<>>)
            bulk == BulkCtorTokens(dtypes, 1, <<>>)
            args == SplitArgs(single, 1, <<>>)
        IN  /\ Len(args) = Len(dtypes)
            /\ \A f \in 1 .. Len(args) : Len(args[f]) = 1 /\ args[f][1].name = f
            /\ Cardinality({t \in 1 .. Len(single) : single[t] = SepTok}) = Len(dtypes) - 1
            /\ single = bulk

\* C12: set_nodes_data with keys given and set_edges_data fail with the
\* length-mismatch error whenever the number of value rows differs from the
\* number of keys, or of edge pairs.
C12_LengthMismatch ==
    /\ (/\ last.op = "set_nodes_data"
        /\ last.nodes # NoKeys
        /\ Len(last.cols) # Len(last.nodes)) => last.raised = LengthMismatch
    /\ (/\ last.op = "set_edges_data"
        /\ Len(last.edges[1]) = Len(last.edges[2])
        /\ Len(last.cols) # Len(last.edges[1])) => last.raised = LengthMismatch

\* C14: a view handed out with a key by nodes(data=True) or nodes_data keeps
\* reading and writing the record of that key after the generator has gone on
\* to later items, no node having been added or removed.
C14_ViewKeepsRecord ==
    /\ \A h \in 1 .. Len(gen.held) : \A f \in 1 .. Len(node_dtypes) :
          View_get(graph, gen.ptr, f) = get_node_data(graph, f, gen.held[h])
    /\ last.op = "view_set" =>
          get_node_data(graph, last.name, last.node) = last.value

============================================================================
